---- MODULE Spec2Model ----
(***************************************************************************)
(* A model of dejavu/__init__.py: the Dejavu driver over a pluggable       *)
(* store.  Two parts share the store variable `songs`:                     *)
(*   - align_matches (SpecAlign): the vote histogram, the running maximum, *)
(*     the per-song table largest_matches, the store lookup and the        *)
(*     fallback workflow;                                                  *)
(*   - ingestion (SpecIngest): fingerprint_file and fingerprint_directory  *)
(*     with a worker pool, against a store whose writes may fail.          *)
(* Python dictionaries are functions with an explicit domain; None is the  *)
(* record [none |-> TRUE].  `/` is Python 3 true division.                 *)
(***************************************************************************)
EXTENDS Integers, Sequences, FiniteSets, TLC

VARIABLES
    \* the store (dejavu.database, reached through self.db)
    songs,              \* song table: song_id -> record
    fingerprints,       \* hash index: set of <<song_id, hash>> rows
    \* the driver object
    songhashes_set,     \* self.songhashes_set
    pc,                 \* where the driver is
    \* align_matches: argument, locals, return value
    matches, pos, diff_counter, largest, largest_count, song_id,
    largest_matches, result,
    \* ingestion: the call in progress
    call,               \* the call's arguments and locals
    pool,               \* the worker pool: one task per submitted file
    outqueue,           \* results of finished tasks, in completion order
    calls,              \* store writes issued so far (a trace of self.db.*)
    ncalls,             \* driver calls started so far
    outcome             \* the last driver call: its arguments and how it ended

vars == <<songs, fingerprints, songhashes_set, pc, matches, pos, diff_counter,
          largest, largest_count, song_id, largest_matches, result,
          call, pool, outqueue, calls, ncalls, outcome>>

alignVars == <<matches, pos, diff_counter, largest, largest_count, song_id,
               largest_matches, result>>

ingestVars == <<fingerprints, songhashes_set, call, pool, outqueue, calls, ncalls,
                outcome>>

None == [none |-> TRUE]

(***************************************************************************)
(* Bounds                                                                  *)
(***************************************************************************)
MaxVotes == 4
MaxCalls == 2
MaxChannels == 3
MaxOffset == 20

\* song ids that votes may carry, offset deltas, and the ids a store may hold
VoteSids == {1, 2}
Diffs == {-1, 2}
SongIds == {-1, 1, 2}

(***************************************************************************)
(* Python dict helpers                                                     *)
(***************************************************************************)
EmptyDict == <<>>

SetItem(d, k, v) == [x \in (DOMAIN d) \cup {k} |-> IF x = k THEN v ELSE d[x]]

\* d.get(k, None)
DictGet(d, k) == IF k \in DOMAIN d THEN d[k] ELSE None

RECURSIVE SeqsUpTo(_, _)
SeqsUpTo(S, n) ==
    IF n = 0 THEN {<<>>}
    ELSE LET shorter == SeqsUpTo(S, n - 1)
         IN shorter \cup {Append(s, x) : s \in {t \in shorter : Len(t) = n - 1}, x \in S}

(***************************************************************************)
(* The store, as far as align_matches reads it                             *)
(***************************************************************************)
SongRecord(name, sha, flag) ==
    [song_name |-> name, file_sha1 |-> sha, fingerprinted |-> flag]

get_song_by_id(id) == IF id \in DOMAIN songs THEN songs[id] ELSE None

(***************************************************************************)
(* align_matches                                                           *)
(***************************************************************************)
\* CountVote with `= 1` for `+= 1`
CountVote_NoAccumulate(dc, sid, diff) ==
    LET row == IF diff \in DOMAIN dc THEN dc[diff] ELSE EmptyDict
    IN SetItem(dc, diff, SetItem(row, sid, 1))

\* lines 143-147: diff_counter[diff][sid] += 1, creating the entries
CountVote(dc, sid, diff) ==
    LET row == IF diff \in DOMAIN dc THEN dc[diff] ELSE EmptyDict
        old == IF sid \in DOMAIN row THEN row[sid] ELSE 0
    IN SetItem(dc, diff, SetItem(row, sid, old + 1))

\* IsNewLargest with `>=` for `>`
IsNewLargest_OrEqual(count, lc) == count >= lc

\* line 149
IsNewLargest(count, lc) == count > lc

\* lines 153-156: largest_matches[sid] = {...}; a dict keeps the position of a
\* key it already holds and appends a new key (insertion order)
SetLargestMatch(lm, sid, count, diff) ==
    LET entry == [key |-> sid, count |-> count, diff |-> diff]
    IN IF \E i \in 1..Len(lm) : lm[i].key = sid
       THEN [i \in 1..Len(lm) |-> IF lm[i].key = sid THEN entry ELSE lm[i]]
       ELSE Append(lm, entry)

\* lines 135-139
align_matches(m) ==
    /\ pc = "idle"
    /\ matches' = m
    /\ pos' = 1
    /\ diff_counter' = EmptyDict
    /\ largest' = 0
    /\ largest_count' = 0
    /\ song_id' = -1
    /\ largest_matches' = <<>>
    /\ result' = None
    /\ pc' = "am_loop"
    /\ UNCHANGED <<songs, ingestVars>>

\* lines 141-156: one iteration of `for tup in matches`
am_vote ==
    /\ pc = "am_loop"
    /\ pos <= Len(matches)
    /\ LET sid == matches[pos][1]
           diff == matches[pos][2]
           dc == CountVote(diff_counter, sid, diff)
           count == dc[diff][sid]
       IN /\ diff_counter' = dc
          /\ IF IsNewLargest(count, largest_count)
             THEN /\ largest' = diff
                  /\ largest_count' = count
                  /\ song_id' = sid
                  /\ largest_matches' = SetLargestMatch(largest_matches, sid, count, diff)
             ELSE UNCHANGED <<largest, largest_count, song_id, largest_matches>>
    /\ pos' = pos + 1
    /\ UNCHANGED <<pc, matches, result, songs, ingestVars>>

(***************************************************************************)
(* DSP defaults of dejavu.fingerprint, read at lines 169-171 and 190-192   *)
(***************************************************************************)
DEFAULT_FS == 44100
DEFAULT_WINDOW_SIZE == 4096
\* DEFAULT_OVERLAP_RATIO = 0.5, kept as a percentage to stay in the integers
DEFAULT_OVERLAP_RATIO_PCT == 50

\* n / d rounded to the nearest integer (d > 0), halves away from zero
RoundDiv(n, d) ==
    IF n >= 0 THEN (2 * n + d) \div (2 * d) ELSE -((2 * (-n) + d) \div (2 * d))

\* lines 169-171, 190-192: round(float(diff) / FS * WINDOW * OVERLAP, 5),
\* in units of 10^-5 s
\* (diff * W * pct / 100 / FS) * 10^5 = diff * W * pct * 10 / (FS / 100)
NSecondsWith(diff, overlap_ratio_pct) ==
    RoundDiv(diff * DEFAULT_WINDOW_SIZE * overlap_ratio_pct * 10, DEFAULT_FS \div 100)

NSeconds(diff) == NSecondsWith(diff, DEFAULT_OVERLAP_RATIO_PCT)

\* AcceptsFallback without the 10% test
AcceptsFallback_NoThreshold(key, count, lc, winner) == winner # key

\* AcceptsFallback without `song_id != key`
AcceptsFallback_IncludesWinner(key, count, lc, winner) == count * 10 >= lc

\* lines 186-188: count / largest_count >= 0.1 and song_id != key
AcceptsFallback(key, count, lc, winner) == count * 10 >= lc /\ winner # key

\* lines 196-204
FallbackEntry(e, song_fallback) ==
    [song_id |-> e.key,
     song_name |-> DictGet(song_fallback, "song_name"),
     confidence |-> e.count,
     offset_seconds |-> NSeconds(e.diff),
     file_sha1 |-> DictGet(song_fallback, "file_sha1")]

Raised(exc) == [raised |-> exc]

\* lines 184-204: the loop over largest_matches from entry i on; a qualifying
\* key the store has no record of makes song_fallback.get raise
RECURSIVE AcceptedFallbacks(_, _, _, _, _)
AcceptedFallbacks(lm, i, lc, winner, acc) ==
    IF i > Len(lm) THEN [raised |-> FALSE, list |-> acc]
    ELSE IF AcceptsFallback(lm[i].key, lm[i].count, lc, winner)
         THEN LET song_fallback == get_song_by_id(lm[i].key)
              IN IF song_fallback = None
                 THEN [raised |-> TRUE, list |-> acc]
                 ELSE AcceptedFallbacks(lm, i + 1, lc, winner,
                                        Append(acc, FallbackEntry(lm[i], song_fallback)))
         ELSE AcceptedFallbacks(lm, i + 1, lc, winner, acc)

\* lines 172-181
MatchRecord(song) ==
    [song_id |-> song_id,
     song_name |-> DictGet(song, "song_name"),
     confidence |-> largest_count,
     offset |-> largest,
     offset_seconds |-> NSeconds(largest),
     file_sha1 |-> DictGet(song, "file_sha1")]

\* HasSong with the check dropped
HasSong_Always(song) == TRUE

\* line 160: `if song:`
HasSong(song) == song # None

\* lines 158-181: the lookup of the winner
am_extract ==
    /\ pc = "am_loop"
    /\ pos > Len(matches)
    /\ LET song == get_song_by_id(song_id)
       IN IF HasSong(song)
          THEN /\ result' = MatchRecord(song)
               /\ pc' = "am_fallback"
          ELSE /\ result' = None
               /\ pc' = "am_done"
    /\ UNCHANGED <<matches, pos, diff_counter, largest, largest_count, song_id,
                   largest_matches, songs, ingestVars>>

\* lines 183-208: the fallback workflow and the return
am_fallback ==
    /\ pc = "am_fallback"
    /\ LET accepted == AcceptedFallbacks(largest_matches, 1, largest_count, song_id, <<>>)
       IN result' = IF accepted.raised
                    THEN Raised("AttributeError")
                    ELSE SetItem(result, "fallback_matches", accepted.list)
    /\ pc' = "am_done"
    /\ UNCHANGED <<matches, pos, diff_counter, largest, largest_count, song_id,
                   largest_matches, songs, ingestVars>>

(***************************************************************************)
(* The aligner alone: any store, any short vote sequence                   *)
(***************************************************************************)
Votes == VoteSids \X Diffs

VoteSeqs == SeqsUpTo(Votes, MaxVotes)

\* longer vote sequences around the 10% threshold of line 188: one vote, a
\* burst of 10 or 11 votes for one cell, and at most one more vote
Bursts == {10, 11}

Repeat(vote, n) == [i \in 1..n |-> vote]

LongSeqs ==
    {<<first>> \o Repeat(cell, n) \o last :
        first \in Votes, cell \in Votes, n \in Bursts,
        last \in {<<>>} \cup {<<v>> : v \in Votes}}

AlignInputs == VoteSeqs \cup LongSeqs

\* stores as get_song_by_id sees them: a record for some of the ids
Stores == {[id \in S |-> SongRecord(id, id, TRUE)] : S \in SUBSET SongIds}

InitAlign ==
    /\ songs \in Stores
    /\ fingerprints = {}
    /\ songhashes_set = {}
    /\ pc = "idle"
    /\ matches = <<>>
    /\ pos = 1
    /\ diff_counter = EmptyDict
    /\ largest = 0
    /\ largest_count = 0
    /\ song_id = -1
    /\ largest_matches = <<>>
    /\ result = None
    /\ call = [kind |-> "none"]
    /\ pool = <<>>
    /\ outqueue = <<>>
    /\ calls = <<>>
    /\ ncalls = 0
    /\ outcome = [op |-> "__init__"]

NextAlign ==
    \/ \E m \in AlignInputs : align_matches(m)
    \/ am_vote
    \/ am_extract
    \/ am_fallback

SpecAlign == InitAlign /\ [][NextAlign]_vars

(***************************************************************************)
(* Ingestion: the files, the decoder and the worker                        *)
(***************************************************************************)
\* the audio files decoder.find_files can find
Files == {"a.wav", "b.wav", "c.wav"}

\* decoder.read: the PCM channels of a file; b.wav is a byte copy of a.wav
Channels(filename) ==
    CASE filename = "a.wav" -> <<"x", "x">>
      [] filename = "b.wav" -> <<"x", "x">>
      [] filename = "c.wav" -> <<"x", "y">>

\* decoder.unique_hash: the content hash of a file
unique_hash(filename) ==
    CASE filename = "a.wav" -> "sha_a"
      [] filename = "b.wav" -> "sha_a"
      [] filename = "c.wav" -> "sha_c"

\* fingerprint.fingerprint: the (hash, offset) tokens of one channel
fingerprint(channel) ==
    CASE channel = "x" -> {"t1", "t2"}
      [] channel = "y" -> {"t2", "t3"}
      [] channel = "z" -> {"t4"}

\* AddChannel with `result = set(hashes)` for `result |= set(hashes)`
AddChannel_Overwrite(acc, hashes) == hashes

\* line 237: result |= set(hashes)
AddChannel(acc, hashes) == acc \cup hashes

\* lines 226-237: result |= set(hashes), channel by channel
RECURSIVE ChannelHashes(_, _, _)
ChannelHashes(channels, channeln, acc) ==
    IF channeln > Len(channels) THEN acc
    ELSE ChannelHashes(channels, channeln + 1,
                       AddChannel(acc, fingerprint(channels[channeln])))

\* lines 215-239; the song name is the file's name
fingerprint_worker(filename) ==
    [song_name |-> filename,
     hashes |-> ChannelHashes(Channels(filename), 1, {}),
     file_hash |-> unique_hash(filename)]

(***************************************************************************)
(* The store's write interface (spec section 6)                            *)
(***************************************************************************)
\* the id insert_song hands out: ids are numbered in order of insertion
NextSongId == Cardinality(DOMAIN songs) + 1

\* get_songs: the records of the songs previously indexed
get_songs == {id \in DOMAIN songs : songs[id].fingerprinted}

\* what insert_hashes may have written when it ends: all the rows, or, when
\* it fails, any part of them
HashWrites(hashes) == SUBSET hashes

WriteCall(op, sid, sha, ok) ==
    [op |-> op, sid |-> sid, sha |-> sha, ok |-> ok, n |-> ncalls]

(***************************************************************************)
(* The driver: fingerprint_file and fingerprint_directory                  *)
(***************************************************************************)
NoCall ==
    [kind |-> "none", files |-> {}, scan |-> {}, failed |-> {},
     song_name |-> "", hashes |-> {}, file_hash |-> "", sid |-> 0]

Outcome(op, arg, status) == [op |-> op, arg |-> arg, status |-> status]

\* AlreadyFingerprinted with the membership test lost
AlreadyFingerprinted_Never(song_hash, seen) == FALSE

\* lines 63, 109: `unique_hash(...) in self.songhashes_set`
AlreadyFingerprinted(song_hash, seen) == song_hash \in seen

\* IngestOrder with the flag set before the hashes are inserted
IngestOrder_FlagFirst ==
    <<"insert_song", "set_song_fingerprinted", "insert_hashes",
      "get_fingerprinted_songs">>

\* IngestOrder with the cached set refreshed before the flag is set
IngestOrder_RefreshFirst ==
    <<"insert_song", "insert_hashes", "get_fingerprinted_songs",
      "set_song_fingerprinted">>

\* lines 90-94, 117-121: the store calls of one ingest, in program order
IngestOrder ==
    <<"insert_song", "insert_hashes", "set_song_fingerprinted",
      "get_fingerprinted_songs">>

StepAfter(step) ==
    LET i == CHOOSE k \in 1..Len(IngestOrder) : IngestOrder[k] = step
    IN IF i < Len(IngestOrder) THEN IngestOrder[i + 1]
       ELSE IF call.kind = "file" THEN "idle" ELSE "fd_loop"

\* the locals of one ingest: lines 80, 112-116
WithWorkerResult(c, r) ==
    [c EXCEPT !.song_name = r.song_name, !.hashes = r.hashes,
              !.file_hash = r.file_hash, !.sid = 0]

\* lines 99-116: a file that cannot be opened or decoded raises (lines 105,
\* 112); a known content hash raises at line 110; otherwise the worker runs
\* in the caller's process and the ingest begins
fingerprint_file(filepath, readable) ==
    /\ pc = "idle"
    /\ ncalls < MaxCalls
    /\ ncalls' = ncalls + 1
    /\ IF ~readable
       THEN /\ outcome' = Outcome("fingerprint_file", {filepath}, "decode error")
            /\ UNCHANGED <<pc, call>>
       ELSE IF AlreadyFingerprinted(unique_hash(filepath), songhashes_set)
       THEN /\ outcome' = Outcome("fingerprint_file", {filepath}, "already fingerprinted")
            /\ UNCHANGED <<pc, call>>
       ELSE /\ outcome' = Outcome("fingerprint_file", {filepath}, "running")
            /\ call' = WithWorkerResult(
                          [NoCall EXCEPT !.kind = "file", !.files = {filepath},
                                         !.scan = songhashes_set],
                          fingerprint_worker(filepath))
            /\ pc' = IngestOrder[1]
    /\ UNCHANGED <<songs, fingerprints, songhashes_set, pool, outqueue, calls, alignVars>>

\* FilenamesToFingerprint without the `continue` of line 65
FilenamesToFingerprint_All(found, seen) == found

\* lines 59-67
FilenamesToFingerprint(found, seen) ==
    {filename \in found : ~AlreadyFingerprinted(unique_hash(filename), seen)}

\* lines 48-75: the scan and the submission of one task per kept file
fingerprint_directory(found) ==
    /\ pc = "idle"
    /\ ncalls < MaxCalls
    /\ ncalls' = ncalls + 1
    /\ LET filenames_to_fingerprint == FilenamesToFingerprint(found, songhashes_set)
       IN /\ call' = [NoCall EXCEPT !.kind = "directory",
                                    !.files = filenames_to_fingerprint,
                                    !.scan = songhashes_set]
          /\ pool' = [filename \in filenames_to_fingerprint |-> "running"]
    /\ outqueue' = <<>>
    /\ outcome' = Outcome("fingerprint_directory", found, "running")
    /\ pc' = "fd_loop"
    /\ UNCHANGED <<songs, fingerprints, songhashes_set, calls, alignVars>>

\* worker_finish with the pool process writing its song to the store itself
worker_finish_Writes(filename, ok) ==
    /\ filename \in DOMAIN pool
    /\ pool[filename] = "running"
    /\ pool' = [pool EXCEPT ![filename] = "finished"]
    /\ outqueue' = Append(outqueue, [filename |-> filename, ok |-> ok])
    /\ songs' = SetItem(songs, NextSongId,
                        SongRecord(filename, unique_hash(filename), FALSE))
    /\ calls' = Append(calls, WriteCall("insert_song", NextSongId,
                                        unique_hash(filename), TRUE))
    /\ UNCHANGED <<fingerprints, songhashes_set, pc, call, ncalls, outcome, alignVars>>

\* a pool process finishes _fingerprint_worker on one file, with a result or
\* with an exception; imap_unordered hands results over in completion order
worker_finish(filename, ok) ==
    /\ filename \in DOMAIN pool
    /\ pool[filename] = "running"
    /\ pool' = [pool EXCEPT ![filename] = "finished"]
    /\ outqueue' = Append(outqueue, [filename |-> filename, ok |-> ok])
    /\ UNCHANGED <<songs, fingerprints, songhashes_set, pc, call, calls, ncalls,
                   outcome, alignVars>>

\* fd_next without the bare `except:` of lines 85-88: the worker's exception
\* leaves fingerprint_directory
fd_next_NoExcept ==
    /\ pc = "fd_loop"
    /\ outqueue # <<>>
    /\ LET r == Head(outqueue)
       IN IF r.ok
          THEN /\ pool' = [pool EXCEPT ![r.filename] = "consumed"]
               /\ call' = [call EXCEPT !.song_name = r.filename,
                                       !.hashes = UNION {fingerprint(Channels(r.filename)[i]) :
                                                         i \in 1..Len(Channels(r.filename))},
                                       !.file_hash = unique_hash(r.filename), !.sid = 0]
               /\ pc' = "insert_song"
               /\ outqueue' = Tail(outqueue)
               /\ UNCHANGED outcome
          ELSE /\ pc' = "idle"
               /\ pool' = <<>>
               /\ outqueue' = <<>>
               /\ call' = [call EXCEPT !.failed = @ \cup {r.filename}]
               /\ outcome' = [outcome EXCEPT !.status = "worker error"]
    /\ UNCHANGED <<songs, fingerprints, songhashes_set, calls, ncalls, alignVars>>

\* lines 78-88: iterator.next() yields a result (else branch: the ingest
\* begins) or re-raises the worker's exception (caught, printed, next file);
\* next() is called without a timeout, so it blocks until a result is there
\* and the TimeoutError branch of line 81 is never taken
fd_next ==
    /\ pc = "fd_loop"
    /\ outqueue # <<>>
    /\ LET r == Head(outqueue)
       IN /\ pool' = [pool EXCEPT ![r.filename] = "consumed"]
          /\ IF r.ok
             THEN /\ call' = WithWorkerResult(call, fingerprint_worker(r.filename))
                  /\ pc' = IngestOrder[1]
             ELSE /\ call' = [call EXCEPT !.failed = @ \cup {r.filename}]
                  /\ pc' = "fd_loop"
    /\ outqueue' = Tail(outqueue)
    /\ UNCHANGED <<songs, fingerprints, songhashes_set, calls, ncalls, outcome, alignVars>>

\* fd_stop leaving the loop as soon as no result is waiting, whatever the
\* tasks still running
fd_stop_Early ==
    /\ pc = "fd_loop"
    /\ outqueue = <<>>
    /\ pc' = "idle"
    /\ pool' = <<>>
    /\ outcome' = [outcome EXCEPT !.status = "returned"]
    /\ UNCHANGED <<songs, fingerprints, songhashes_set, call, outqueue, calls, ncalls,
                   alignVars>>

\* lines 83-84, 96-97: StopIteration once every task's result was consumed;
\* the pool is closed and joined and the call returns
fd_stop ==
    /\ pc = "fd_loop"
    /\ \A filename \in DOMAIN pool : pool[filename] = "consumed"
    /\ pc' = "idle"
    /\ pool' = <<>>
    /\ outcome' = [outcome EXCEPT !.status = "returned"]
    /\ UNCHANGED <<songs, fingerprints, songhashes_set, call, outqueue, calls, ncalls,
                   alignVars>>

\* a store call raises: the exception leaves fingerprint_file or the while
\* loop of fingerprint_directory (lines 89-94 are outside the try), so the
\* call ends there; the pool and its pending results are abandoned
StoreError ==
    /\ pc' = "idle"
    /\ pool' = <<>>
    /\ outqueue' = <<>>
    /\ outcome' = [outcome EXCEPT !.status = "store error"]

\* lines 90, 117
insert_song(ok) ==
    /\ pc = "insert_song"
    /\ IF ok
       THEN /\ songs' = SetItem(songs, NextSongId,
                                SongRecord(call.song_name, call.file_hash, FALSE))
            /\ call' = [call EXCEPT !.sid = NextSongId]
            /\ calls' = Append(calls, WriteCall("insert_song", NextSongId, call.file_hash, TRUE))
            /\ pc' = StepAfter("insert_song")
            /\ UNCHANGED <<pool, outqueue, outcome>>
       ELSE /\ calls' = Append(calls, WriteCall("insert_song", 0, call.file_hash, FALSE))
            /\ StoreError
            /\ UNCHANGED <<songs, call>>
    /\ UNCHANGED <<fingerprints, songhashes_set, ncalls, alignVars>>

\* lines 92, 119: all the rows, or a part of them and an exception
insert_hashes(written) ==
    /\ pc = "insert_hashes"
    /\ fingerprints' = fingerprints \cup {<<call.sid, h>> : h \in written}
    /\ calls' = Append(calls, WriteCall("insert_hashes", call.sid, call.file_hash,
                                        written = call.hashes))
    /\ IF written = call.hashes
       THEN /\ pc' = StepAfter("insert_hashes")
            /\ UNCHANGED <<pool, outqueue, outcome>>
       ELSE StoreError
    /\ UNCHANGED <<songs, songhashes_set, call, ncalls, alignVars>>

\* lines 93, 120
set_song_fingerprinted(ok) ==
    /\ pc = "set_song_fingerprinted"
    /\ calls' = Append(calls, WriteCall("set_song_fingerprinted", call.sid,
                                        call.file_hash, ok))
    /\ IF ok
       THEN /\ songs' = [songs EXCEPT ![call.sid].fingerprinted = TRUE]
            /\ pc' = StepAfter("set_song_fingerprinted")
            /\ UNCHANGED <<pool, outqueue, outcome>>
       ELSE /\ StoreError
            /\ UNCHANGED songs
    /\ UNCHANGED <<fingerprints, songhashes_set, call, ncalls, alignVars>>

\* lines 40-46, called at lines 94 and 121; fingerprint_file returns after it
get_fingerprinted_songs ==
    /\ pc = "get_fingerprinted_songs"
    /\ songhashes_set' = {songs[id].file_sha1 : id \in get_songs}
    /\ pc' = StepAfter("get_fingerprinted_songs")
    /\ outcome' = IF call.kind = "file"
                  THEN [outcome EXCEPT !.status = "returned"]
                  ELSE outcome
    /\ UNCHANGED <<songs, fingerprints, call, pool, outqueue, calls, ncalls, alignVars>>

\* Dejavu.__init__ on an empty store (lines 22-38)
InitIngest ==
    /\ songs = EmptyDict
    /\ fingerprints = {}
    /\ songhashes_set = {}
    /\ pc = "idle"
    /\ matches = <<>>
    /\ pos = 1
    /\ diff_counter = EmptyDict
    /\ largest = 0
    /\ largest_count = 0
    /\ song_id = -1
    /\ largest_matches = <<>>
    /\ result = None
    /\ call = NoCall
    /\ pool = <<>>
    /\ outqueue = <<>>
    /\ calls = <<>>
    /\ ncalls = 0
    /\ outcome = Outcome("__init__", {}, "returned")

NextIngest ==
    \/ \E filepath \in Files, readable \in BOOLEAN : fingerprint_file(filepath, readable)
    \/ \E found \in SUBSET Files : fingerprint_directory(found)
    \/ \E filename \in Files, ok \in BOOLEAN : worker_finish(filename, ok)
    \/ fd_next
    \/ fd_stop
    \/ \E ok \in BOOLEAN : insert_song(ok)
    \/ \E written \in HashWrites(call.hashes) : insert_hashes(written)
    \/ \E ok \in BOOLEAN : set_song_fingerprinted(ok)
    \/ get_fingerprinted_songs

SpecIngest == InitIngest /\ [][NextIngest]_vars


(***************************************************************************)
(* The vote histogram of section 4.4, computed from the votes themselves   *)
(***************************************************************************)
Max(S) == CHOOSE x \in S : \A y \in S : y <= x

\* votes for `cell` among the first n votes of m
CellCountIn(m, n, cell) == Cardinality({i \in 1..n : m[i] = cell})

CellCount(m, cell) == CellCountIn(m, Len(m), cell)

Cells(m) == {m[i] : i \in 1..Len(m)}

MaxCellCount(m) == Max({0} \cup {CellCount(m, c) : c \in Cells(m)})

MaxCells(m) == {c \in Cells(m) : CellCount(m, c) = MaxCellCount(m)}

\* the vote with which `cell` reaches the count n
ReachIdx(m, cell, n) ==
    CHOOSE i \in 1..Len(m) : m[i] = cell /\ CellCountIn(m, i, cell) = n

\* a song's strongest alignment: its largest cell count over all offsets
BestCount(m, sid) ==
    Max({0} \cup {CellCount(m, c) : c \in {d \in Cells(m) : d[1] = sid}})

VotedSids(m) == {c[1] : c \in Cells(m)}

IsMatch(r) == r # None /\ r # Raised("AttributeError")

Returned == pc = "am_done" /\ IsMatch(result)

FallbackIds(r) == {r.fallback_matches[i].song_id : i \in 1..Len(r.fallback_matches)}

C2_FirstToReachWins ==
    (matches # <<>> /\ IsMatch(result)) =>
        LET w == <<result.song_id, result.offset>>
            n == MaxCellCount(matches)
        IN /\ w \in MaxCells(matches)
           /\ \A c \in MaxCells(matches) \ {w} :
                 ReachIdx(matches, w, n) < ReachIdx(matches, c, n)

C2_Witness ==
    /\ Returned
    /\ Cardinality(MaxCells(matches)) = 2
    /\ MaxCellCount(matches) = 2
    /\ matches[1] # <<result.song_id, result.offset>>

\* C3: an empty vote sequence is answered "no match", whatever the store holds
C3_EmptyVotesNoMatch ==
    (pc = "am_done" /\ matches = <<>>) => result = None

\* the cell align_matches should pick: the first to reach the largest count
WinnerCell(m) ==
    CHOOSE w \in MaxCells(m) :
        \A c \in MaxCells(m) \ {w} :
            ReachIdx(m, w, MaxCellCount(m)) < ReachIdx(m, c, MaxCellCount(m))

\* C4: when the store has no record of the winning song_id the call answers
\* "no match", whatever the other songs are
C4_MissingWinnerNoMatch ==
    (pc = "am_done" /\ matches # <<>> /\ WinnerCell(matches)[1] \notin DOMAIN songs)
        => result = None

C4_Witness ==
    /\ pc = "am_done"
    /\ Len(matches) >= 3
    /\ WinnerCell(matches)[1] \notin DOMAIN songs
    /\ \E s \in VotedSids(matches) \ {WinnerCell(matches)[1]} : s \in DOMAIN songs
    /\ result = None

\* C5: every song other than the winner whose strongest alignment has at
\* least 10% of the winning count is listed in fallback_matches
C5_FallbackComplete ==
    Returned =>
        \A s \in VotedSids(matches) \ {result.song_id} :
            BestCount(matches, s) * 10 >= result.confidence
                => s \in FallbackIds(result)

\* C6: at the end of align_matches the per-song table holds, for each song in
\* it, the song's strongest alignment: the largest cell count of the song and
\* an offset attaining it; a fallback reports these values
C6_PerSongBest ==
    (pc = "am_done") =>
        /\ \A i \in 1..Len(largest_matches) :
              LET e == largest_matches[i]
              IN /\ e.count = BestCount(matches, e.key)
                 /\ CellCount(matches, <<e.key, e.diff>>) = e.count
        /\ IsMatch(result) =>
              \A i \in 1..Len(result.fallback_matches) :
                  LET f == result.fallback_matches[i]
                  IN f.confidence = BestCount(matches, f.song_id)

(***************************************************************************)
(* Ingestion properties                                                    *)
(***************************************************************************)
\* the hashes of a file: the tokens of all of its channels
ComputedHashes(filename) ==
    UNION {fingerprint(Channels(filename)[i]) : i \in 1..Len(Channels(filename))}

HasAllHashes(sid) ==
    \A h \in ComputedHashes(songs[sid].song_name) : <<sid, h>> \in fingerprints

\* C7: a song whose fingerprinted flag is set has all of its computed hashes
\* in the index; set_song_fingerprinted(sid) is only called after insert_song
\* returned sid and insert_hashes(sid, ...) completed; a failed or partial
\* insert_hashes leaves the flag unset
C7_FlagAfterHashes ==
    /\ \A sid \in DOMAIN songs : songs[sid].fingerprinted => HasAllHashes(sid)
    /\ \A i \in 1..Len(calls) :
          calls[i].op = "set_song_fingerprinted" =>
              \E j \in 1..(i - 1), k \in 1..(i - 1) :
                  /\ j < k
                  /\ calls[j].op = "insert_song" /\ calls[j].ok
                  /\ calls[j].sid = calls[i].sid
                  /\ calls[k].op = "insert_hashes" /\ calls[k].ok
                  /\ calls[k].sid = calls[i].sid
    /\ \A i \in 1..Len(calls) :
          (calls[i].op = "insert_hashes" /\ ~calls[i].ok) =>
              ~songs[calls[i].sid].fingerprinted

C7_Witness ==
    /\ \E sid \in DOMAIN songs : songs[sid].fingerprinted
    /\ \E i \in 1..Len(calls) :
          /\ calls[i].op = "insert_hashes" /\ ~calls[i].ok
          /\ \E h \in ComputedHashes(songs[calls[i].sid].song_name) :
                <<calls[i].sid, h>> \in fingerprints
    /\ \E i \in 1..Len(calls) : calls[i].op = "set_song_fingerprinted" /\ ~calls[i].ok
    /\ outcome.op = "fingerprint_directory"

\* C8: after any sequence of fingerprint_file and fingerprint_directory calls
\* no two song records share the same content hash (stated for the runs in
\* which no store call failed: the claim's own cases)
C8_UniqueContentHash ==
    (pc = "idle" /\ \A i \in 1..Len(calls) : calls[i].ok) =>
        \A s1 \in DOMAIN songs, s2 \in DOMAIN songs :
            s1 # s2 => songs[s1].file_sha1 # songs[s2].file_sha1

\* C9: fingerprint_file on a file whose content hash is in songhashes_set
\* raises and changes nothing: no store write is issued and the cached set
\* stays as it is
C9_DuplicateFileRaises ==
    [][(/\ ncalls' = ncalls + 1
        /\ outcome'.op = "fingerprint_file"
        /\ \E f \in outcome'.arg : unique_hash(f) \in songhashes_set)
          => /\ outcome'.status \in {"already fingerprinted", "decode error"}
             /\ pc' = "idle"
             /\ UNCHANGED <<songs, fingerprints, songhashes_set, calls>>]_vars

C9_Witness ==
    /\ outcome.op = "fingerprint_file"
    /\ outcome.status = "already fingerprinted"
    /\ pc = "idle"
    /\ \E f \in outcome.arg : unique_hash(f) \in songhashes_set
    /\ \E sid \in DOMAIN songs : songs[sid].fingerprinted /\ HasAllHashes(sid)

\* C10: fingerprint_directory submits to the pool exactly the files whose
\* content hash is not in songhashes_set at scan time, writes no store row
\* for a file whose hash was in it, and still ingests the files it kept
C10_DirectorySkipsKnown ==
    (outcome.op = "fingerprint_directory") =>
        /\ call.files = {f \in outcome.arg : unique_hash(f) \notin call.scan}
        /\ (outcome.status = "running") => DOMAIN pool = call.files
        /\ \A i \in 1..Len(calls) : calls[i].n = ncalls => calls[i].sha \notin call.scan
        /\ (outcome.status = "returned") =>
              \A f \in call.files \ call.failed :
                  \E sid \in DOMAIN songs :
                      /\ songs[sid].song_name = f
                      /\ songs[sid].fingerprinted
                      /\ HasAllHashes(sid)
                      /\ \E i \in 1..Len(calls) :
                            calls[i].n = ncalls /\ calls[i].sid = sid

C10_Witness ==
    /\ outcome.op = "fingerprint_directory"
    /\ outcome.status = "returned"
    /\ \E f \in outcome.arg : unique_hash(f) \in call.scan
    /\ \E f \in call.files : \E sid \in DOMAIN songs :
          /\ songs[sid].song_name = f
          /\ songs[sid].fingerprinted
          /\ \E i \in 1..Len(calls) : calls[i].n = ncalls /\ calls[i].sid = sid

\* the song record written for `filename` by the driver call in progress
InsertedNow(filename, sid) ==
    /\ sid \in DOMAIN songs
    /\ songs[sid].song_name = filename
    /\ \E i \in 1..Len(calls) :
          calls[i].n = ncalls /\ calls[i].op = "insert_song" /\ calls[i].sid = sid

\* C11: in fingerprint_directory a worker failure does not end the batch: the
\* run only ends by returning or on a failed store call; when it returns,
\* every file whose worker succeeded has its song, hashes and flag, and
\* nothing was written for a file whose worker failed
C11_WorkerFailureIsolated ==
    (outcome.op = "fingerprint_directory") =>
        /\ outcome.status \in {"running", "returned", "store error"}
        /\ (outcome.status = "store error") => ~calls[Len(calls)].ok
        /\ \A f \in call.failed :
              /\ f \in call.files
              /\ ~\E sid \in DOMAIN songs : InsertedNow(f, sid)
        /\ (outcome.status = "returned") =>
              \A f \in call.files \ call.failed :
                  \E sid \in DOMAIN songs :
                      /\ InsertedNow(f, sid)
                      /\ songs[sid].fingerprinted
                      /\ HasAllHashes(sid)

C11_Witness ==
    /\ outcome.op = "fingerprint_directory"
    /\ outcome.status = "returned"
    /\ Cardinality(call.files) = 3
    /\ Cardinality(call.failed) = 1
    /\ \A f \in call.files \ call.failed :
          \E sid \in DOMAIN songs : InsertedNow(f, sid) /\ songs[sid].fingerprinted

\* the content hashes of the songs get_songs returns
StoreHashes == {songs[id].file_sha1 : id \in get_songs}

\* an ingest step has just succeeded: fingerprint_file returned, or the
\* directory loop is back at iterator.next() after the ingest of one song
AfterIngest ==
    \/ pc = "idle" /\ outcome.op = "fingerprint_file" /\ outcome.status = "returned"
    \/ /\ pc = "fd_loop"
       /\ call.sid # 0
       /\ calls # <<>>
       /\ calls[Len(calls)].n = ncalls
       /\ calls[Len(calls)].sid = call.sid

\* C12: after every successful ingest step songhashes_set is the set of the
\* content hashes of the songs get_songs returns, and holds the hash of the
\* song just ingested
C12_CacheRefreshed ==
    AfterIngest =>
        /\ songhashes_set = StoreHashes
        /\ call.file_hash \in songhashes_set
        /\ songs[call.sid].file_sha1 \in songhashes_set

C12_Witness ==
    /\ pc = "fd_loop"
    /\ AfterIngest
    /\ call.scan # songhashes_set
    /\ Cardinality(songhashes_set) = 2

(***************************************************************************)
(* The aligner: lookups that fail, fallbacks                               *)
(***************************************************************************)
\* the songs of the per-song table that qualify as fallbacks (lines 186-188)
QualifyingKeys ==
    {largest_matches[i].key : i \in
        {j \in 1..Len(largest_matches) :
            /\ largest_matches[j].count * 10 >= largest_count
            /\ largest_matches[j].key # song_id}}

\* C13: when the store has a record of the winner but none of a song that
\* qualifies as a fallback, align_matches neither raises nor returns a partial
\* record: it answers "no match"
C13_MissingFallbackNoMatch ==
    (/\ pc = "am_done"
     /\ matches # <<>>
     /\ WinnerCell(matches)[1] \in DOMAIN songs
     /\ \E key \in QualifyingKeys : key \notin DOMAIN songs)
        => result = None

\* C16: every entry of fallback_matches is a song other than the winner, is
\* listed once, and has at least 10% of the winner's confidence; a song whose
\* best count is below 10% of the winning count is not listed
C16_FallbackSound ==
    Returned =>
        /\ \A i \in 1..Len(result.fallback_matches) :
              LET f == result.fallback_matches[i]
              IN /\ f.song_id # result.song_id
                 /\ f.confidence * 10 >= result.confidence
                 /\ \A j \in 1..Len(result.fallback_matches) :
                       result.fallback_matches[j].song_id = f.song_id => j = i
        /\ \A s \in VotedSids(matches) :
              BestCount(matches, s) * 10 < MaxCellCount(matches)
                  => s \notin FallbackIds(result)

C16_Witness ==
    /\ Returned
    /\ \E s \in VotedSids(matches) :
          /\ s \in DOMAIN songs
          /\ s # result.song_id
          /\ \E i \in 1..Len(largest_matches) : largest_matches[i].key = s
          /\ BestCount(matches, s) * 10 < result.confidence
          /\ s \notin FallbackIds(result)

\* C19: for a non-empty vote sequence the confidence of a result is at least
\* 1 and every fallback's confidence is strictly smaller than it, also for a
\* song whose best cell count equals the winning count
C19_FallbackWeaker ==
    (Returned /\ matches # <<>>) =>
        /\ result.confidence >= 1
        /\ \A i \in 1..Len(result.fallback_matches) :
              result.fallback_matches[i].confidence < result.confidence

C19_Witness ==
    /\ Returned
    /\ \E s \in FallbackIds(result) :
          /\ s # result.song_id
          /\ BestCount(matches, s) = result.confidence

(***************************************************************************)
(* align_matches as a function of its argument, for comparing two calls    *)
(***************************************************************************)
\* lines 135-139
LoopStart ==
    [diff_counter |-> EmptyDict, largest |-> 0, largest_count |-> 0,
     song_id |-> -1, largest_matches |-> <<>>]

\* lines 142-156
LoopBody(st, tup) ==
    LET dc == CountVote(st.diff_counter, tup[1], tup[2])
        count == dc[tup[2]][tup[1]]
    IN IF IsNewLargest(count, st.largest_count)
       THEN [diff_counter |-> dc, largest |-> tup[2], largest_count |-> count,
             song_id |-> tup[1],
             largest_matches |-> SetLargestMatch(st.largest_matches, tup[1], count, tup[2])]
       ELSE [st EXCEPT !.diff_counter = dc]

\* line 141
RECURSIVE LoopOver(_, _, _)
LoopOver(m, i, st) ==
    IF i > Len(m) THEN st ELSE LoopOver(m, i + 1, LoopBody(st, m[i]))

FallbackSet(list) ==
    {[song_id |-> list[i].song_id, confidence |-> list[i].confidence,
      offset_seconds |-> list[i].offset_seconds] : i \in 1..Len(list)}

\* lines 158-208: what a call on m answers, fallbacks taken as a set
Answer(m) ==
    LET st == LoopOver(m, 1, LoopStart)
    IN IF ~HasSong(get_song_by_id(st.song_id)) THEN [kind |-> "none"]
       ELSE LET accepted == AcceptedFallbacks(st.largest_matches, 1, st.largest_count,
                                              st.song_id, <<>>)
            IN IF accepted.raised THEN [kind |-> "raised"]
               ELSE [kind |-> "match", song_id |-> st.song_id, offset |-> st.largest,
                     confidence |-> st.largest_count,
                     fallbacks |-> FallbackSet(accepted.list)]

\* the answer of the call in progress, in the same form
Answered ==
    IF result = None THEN [kind |-> "none"]
    ELSE IF result = Raised("AttributeError") THEN [kind |-> "raised"]
    ELSE [kind |-> "match", song_id |-> result.song_id, offset |-> result.offset,
          confidence |-> result.confidence,
          fallbacks |-> FallbackSet(result.fallback_matches)]

\* two orderings of the same multiset of votes
SameVotes(m1, m2) ==
    /\ Len(m1) = Len(m2)
    /\ \A c \in Cells(m1) \cup Cells(m2) : CellCount(m1, c) = CellCount(m2, c)

\* C15: the order of the votes is irrelevant: two orderings of the same votes
\* whose largest cell is unique get the same song_id, offset and confidence
\* and the same set of fallback entries, whenever both get a result
C15_OrderIrrelevant ==
    (pc = "am_done" /\ Cardinality(MaxCells(matches)) = 1) =>
        \A m2 \in AlignInputs :
            (SameVotes(matches, m2) /\ Answered.kind = "match" /\ Answer(m2).kind = "match")
                => Answer(m2) = Answered

(***************************************************************************)
(* _fingerprint_worker alone, on any short list of channels                *)
(***************************************************************************)
ChannelIds == {"x", "y", "z"}

ChannelLists == SeqsUpTo(ChannelIds, MaxChannels) \ {<<>>}

\* lines 225-227: decoder.read returned the channels; result = set()
InitWorker ==
    /\ songs = EmptyDict
    /\ fingerprints = {}
    /\ songhashes_set = {}
    /\ pc = "fw_loop"
    /\ matches = <<>>
    /\ pos = 1
    /\ diff_counter = EmptyDict
    /\ largest = 0
    /\ largest_count = 0
    /\ song_id = -1
    /\ largest_matches = <<>>
    /\ result = None
    /\ \E channels \in ChannelLists :
          call = [channels |-> channels, channeln |-> 1, result |-> {}]
    /\ pool = <<>>
    /\ outqueue = <<>>
    /\ calls = <<>>
    /\ ncalls = 0
    /\ outcome = Outcome("_fingerprint_worker", {}, "running")

\* lines 229-237: one iteration of `for channeln, channel in enumerate(channels)`
fw_channel ==
    /\ pc = "fw_loop"
    /\ call.channeln <= Len(call.channels)
    /\ call' = [call EXCEPT
                   !.result = AddChannel(@, fingerprint(call.channels[call.channeln])),
                   !.channeln = @ + 1]
    /\ UNCHANGED <<songs, fingerprints, songhashes_set, pc, pool, outqueue, calls,
                   ncalls, outcome, alignVars>>

\* line 239
fw_return ==
    /\ pc = "fw_loop"
    /\ call.channeln > Len(call.channels)
    /\ pc' = "fw_done"
    /\ outcome' = [outcome EXCEPT !.status = "returned"]
    /\ UNCHANGED <<songs, fingerprints, songhashes_set, call, pool, outqueue, calls,
                   ncalls, alignVars>>

NextWorker == fw_channel \/ fw_return

SpecWorker == InitWorker /\ [][NextWorker]_vars

\* C14: the worker returns the union of the per-channel hash sets: a file
\* whose channels are all the same channel gets the hash set of that channel
\* alone, and the order of the channels does not matter
C14_ChannelUnion ==
    (pc = "fw_done") =>
        LET channels == call.channels
        IN /\ call.result = UNION {fingerprint(channels[i]) : i \in 1..Len(channels)}
           /\ (\A i \in 1..Len(channels) : channels[i] = channels[1])
                 => call.result = fingerprint(channels[1])
           /\ \A other \in ChannelLists :
                 {other[i] : i \in 1..Len(other)} = {channels[i] : i \in 1..Len(channels)}
                     => ChannelHashes(other, 1, {}) = call.result

C14_Witness ==
    /\ pc = "fw_done"
    /\ Len(call.channels) = 2
    /\ call.channels[1] = call.channels[2]
    /\ call.result = ChannelHashes(<<call.channels[1]>>, 1, {})
    /\ call.result # {}

(***************************************************************************)
(* Ingestion with a store that does not fail, workers that finish and a    *)
(* driver that keeps running                                               *)
(***************************************************************************)
\* a pool process ends its task, with a result or with an exception
WorkerStep == \E filename \in Files, ok \in BOOLEAN : worker_finish(filename, ok)

\* the statements of the driver after the tasks were submitted, each store
\* call returning normally
DriverStep ==
    \/ fd_next
    \/ fd_stop
    \/ insert_song(TRUE)
    \/ insert_hashes(call.hashes)
    \/ set_song_fingerprinted(TRUE)
    \/ get_fingerprinted_songs

NextReliable ==
    \/ \E filepath \in Files, readable \in BOOLEAN : fingerprint_file(filepath, readable)
    \/ \E found \in SUBSET Files : fingerprint_directory(found)
    \/ WorkerStep
    \/ DriverStep

SpecIngestFair ==
    InitIngest /\ [][NextReliable]_vars /\ WF_vars(WorkerStep) /\ WF_vars(DriverStep)

\* the store calls `op` the running call has issued for the file `filename`
WritesFor(filename, op) ==
    {i \in 1..Len(calls) :
        /\ calls[i].n = ncalls
        /\ calls[i].op = op
        /\ songs[calls[i].sid].song_name = filename}

DirectoryReturned ==
    /\ outcome.op = "fingerprint_directory"
    /\ outcome.status = "returned"
    /\ pc = "idle"

\* each submitted file has one outcome: a reported failure and no write, or
\* one insert_song, one insert_hashes and one set_song_fingerprinted
ExactlyOnce ==
    /\ call.failed \subseteq call.files
    /\ \A f \in call.failed :
          \A op \in {"insert_song", "insert_hashes", "set_song_fingerprinted"} :
              WritesFor(f, op) = {}
    /\ \A f \in call.files \ call.failed :
          \A op \in {"insert_song", "insert_hashes", "set_song_fingerprinted"} :
              Cardinality(WritesFor(f, op)) = 1
    /\ Cardinality({i \in 1..Len(calls) : calls[i].n = ncalls})
          = 3 * Cardinality(call.files \ call.failed)

\* C17: with workers that finish and a store that does not fail, every
\* fingerprint_directory call ends by returning with the pool closed and
\* joined; when it has returned each submitted file has exactly one outcome
\* (one insert_song / insert_hashes / set_song_fingerprinted sequence, or one
\* reported failure), and during the run no file is inserted twice, for every
\* order in which the results arrive
C17_DirectoryTerminates ==
    /\ \A k \in 1..MaxCalls :
          (call.kind = "directory" /\ pc # "idle" /\ ncalls = k)
              ~> (DirectoryReturned /\ ncalls = k /\ pool = <<>> /\ outqueue = <<>>)
    /\ [](DirectoryReturned => ExactlyOnce)
    /\ [](call.kind = "directory" =>
             \A f \in call.files : Cardinality(WritesFor(f, "insert_song")) <= 1)

C17_Witness ==
    /\ DirectoryReturned
    /\ pool = <<>>
    /\ Cardinality(call.files) = 3
    /\ Cardinality(call.failed) = 1
    /\ ExactlyOnce
    /\ songs[1].song_name = "c.wav"

(***************************************************************************)
(* Who writes to the store, and in which order                             *)
(***************************************************************************)
\* the log of store writes keeps each song's calls together: insert_hashes
\* directly follows the insert_song that returned its sid, the flag call
\* directly follows the complete insert_hashes, and the next song of the same
\* run begins only after the flag call of the one before
LogContiguous ==
    /\ \A i \in 1..Len(calls) :
          /\ calls[i].op = "insert_hashes" =>
                /\ i > 1
                /\ calls[i - 1].op = "insert_song" /\ calls[i - 1].ok
                /\ calls[i - 1].sid = calls[i].sid /\ calls[i - 1].n = calls[i].n
          /\ calls[i].op = "set_song_fingerprinted" =>
                /\ i > 1
                /\ calls[i - 1].op = "insert_hashes" /\ calls[i - 1].ok
                /\ calls[i - 1].sid = calls[i].sid /\ calls[i - 1].n = calls[i].n
          /\ (calls[i].op = "insert_song" /\ i > 1 /\ calls[i - 1].n = calls[i].n) =>
                /\ calls[i - 1].op = "set_song_fingerprinted" /\ calls[i - 1].ok
                /\ calls[i - 1].sid # calls[i].sid
    /\ \A i \in 1..Len(calls), k \in 1..Len(calls) :
          (i < k /\ calls[i].sid = calls[k].sid /\ calls[i].sid # 0) =>
              \A j \in i..k : calls[j].sid = calls[i].sid /\ calls[j].n = calls[i].n

\* some task of the pool ends in this step
WorkerFinishes ==
    \E f \in DOMAIN pool :
        pool[f] = "running" /\ f \in DOMAIN pool' /\ pool'[f] = "finished"

StoreState == <<songs, fingerprints, calls>>

\* C18: store writes are issued only by the driver, at one of its three store
\* calls, one song at a time: the calls of one song are contiguous in the
\* write log and never interleaved with another song's, for every completion
\* order of the workers; a step of a worker leaves the store and the write
\* log untouched
C18_DriverWritesOnly ==
    [][/\ LogContiguous'
       /\ WorkerFinishes => UNCHANGED StoreState
       /\ (StoreState' # StoreState) =>
             pc \in {"insert_song", "insert_hashes", "set_song_fingerprinted"}]_vars

C18_Witness ==
    /\ call.kind = "directory"
    /\ pc = "insert_hashes"
    /\ Len(outqueue) = 1
    /\ outqueue[1].filename = "a.wav"
    /\ call.song_name = "b.wav"
    /\ songs[1].song_name = "c.wav"
    /\ LogContiguous
    /\ Cardinality({i \in 1..Len(calls) : calls[i].n = ncalls}) = 4

(***************************************************************************)
(* The conversion of an offset in frames to seconds, for the overlap       *)
(* ratios the fingerprint module can be configured with                    *)
(***************************************************************************)
\* overlap ratios in (0, 1), in percent, for which the hop is a whole number
\* of samples
OverlapRatios == {25, 50, 75}

Offsets == (-MaxOffset)..MaxOffset

\* line 168 is reached with the winning offset in `largest`
InitSeconds ==
    /\ songs = EmptyDict
    /\ fingerprints = {}
    /\ songhashes_set = {}
    /\ pc = "am_seconds"
    /\ matches = <<>>
    /\ pos = 1
    /\ diff_counter = EmptyDict
    /\ largest \in Offsets
    /\ largest_count = 1
    /\ song_id = 1
    /\ largest_matches = <<>>
    /\ result = None
    /\ \E overlap_ratio_pct \in OverlapRatios :
          call = [kind |-> "seconds", overlap_ratio_pct |-> overlap_ratio_pct]
    /\ pool = <<>>
    /\ outqueue = <<>>
    /\ calls = <<>>
    /\ ncalls = 0
    /\ outcome = Outcome("align_matches", {}, "running")

\* lines 169-171, 178-179: nseconds, and the two offset fields of the record
am_seconds ==
    /\ pc = "am_seconds"
    /\ result' = [offset |-> largest,
                  offset_seconds |-> NSecondsWith(largest, call.overlap_ratio_pct)]
    /\ pc' = "am_seconds_done"
    /\ UNCHANGED <<songs, matches, pos, diff_counter, largest, largest_count, song_id,
                   largest_matches, ingestVars>>

NextSeconds == am_seconds

SpecSeconds == InitSeconds /\ [][NextSeconds]_vars

\* Hop = W * (1 - overlap_ratio), in samples
Hop(overlap_ratio_pct) == (DEFAULT_WINDOW_SIZE * (100 - overlap_ratio_pct)) \div 100

\* C20: the offset of the record is the winning offset in frames, and
\* offset_seconds is offset * Hop / Fs rounded to 5 decimal places with
\* Hop = W * (1 - overlap_ratio), for every overlap ratio in (0, 1)
C20_OffsetSeconds ==
    (pc = "am_seconds_done") =>
        /\ result.offset = largest
        /\ result.offset_seconds
              = RoundDiv(largest * Hop(call.overlap_ratio_pct) * 1000, DEFAULT_FS \div 100)

====
